---- MODULE Spec2Model ----
(***************************************************************************)
(* A model of the luxor client (client/client.go) and of the status table  *)
(* (protocol/protocol.go).                                                 *)
(*                                                                         *)
(* One logical call is a facade method (ThemeGet, GroupListGet, ...)       *)
(* running Controller.request, which starts Controller.doPost as a         *)
(* goroutine and then selects on ctx.Done() and the result channel.        *)
(* Errors are modelled by their message, a sequence of string fragments;   *)
(* the nil error is the empty sequence.                                    *)
(***************************************************************************)
EXTENDS Integers, Sequences, FiniteSets, TLC

(***************************************************************************)
(* Bounds of the model.                                                    *)
(***************************************************************************)
\* The clock runs over 0..MaxTime; deadlines are drawn from the same range.
MaxTime == 2
\* ErrorForStatus is exercised on every status in the range -MaxNegStatus..MaxStatus.
MaxNegStatus == 3
MaxStatus == 260

\* The calls that may be issued against the one Controller.
Calls == {"c1", "c2"}

(***************************************************************************)
(* Errors.                                                                 *)
(***************************************************************************)
NilErr == <<>>
\* context.Canceled and context.DeadlineExceeded
Canceled == <<"context canceled">>
DeadlineExceeded == <<"context deadline exceeded">>

Digit(d) ==
    CASE d = 0 -> "0" [] d = 1 -> "1" [] d = 2 -> "2" [] d = 3 -> "3"
      [] d = 4 -> "4" [] d = 5 -> "5" [] d = 6 -> "6" [] d = 7 -> "7"
      [] d = 8 -> "8" [] d = 9 -> "9"

RECURSIVE Digits(_)
Digits(n) == IF n < 10 THEN <<Digit(n)>> ELSE Append(Digits(n \div 10), Digit(n % 10))

\* the %d verb of fmt
FormatInt(n) == IF n < 0 THEN <<"-">> \o Digits(-n) ELSE Digits(n)

(***************************************************************************)
(* protocol.go: the status table.                                          *)
(***************************************************************************)
StatusOk == 0
StatusUnknownMethod == 1
StatusUnparseableRequest == 101
StatusInvalidRequest == 102
StatusPreconditionFailed == 201
StatusGroupNameInUse == 202
StatusGroupNumberInUse == 205
StatusThemeIndexOutOfRange == 243

\* Mutant: the descriptions of 202 and 205 are exchanged.
statusNameSwapped ==
    (StatusOk :> "ok") @@
    (StatusUnknownMethod :> "unknown method") @@
    (StatusUnparseableRequest :> "unparseable request") @@
    (StatusInvalidRequest :> "invalid request") @@
    (StatusPreconditionFailed :> "precondition failed") @@
    (StatusGroupNameInUse :> "group number in use") @@
    (StatusGroupNumberInUse :> "group name in use") @@
    (StatusThemeIndexOutOfRange :> "theme index out of range")

\* var statusName = map[int]string{ ... }
statusName ==
    (StatusOk :> "ok") @@
    (StatusUnknownMethod :> "unknown method") @@
    (StatusUnparseableRequest :> "unparseable request") @@
    (StatusInvalidRequest :> "invalid request") @@
    (StatusPreconditionFailed :> "precondition failed") @@
    (StatusGroupNameInUse :> "group name in use") @@
    (StatusGroupNumberInUse :> "group number in use") @@
    (StatusThemeIndexOutOfRange :> "theme index out of range")

\* Mutant: a status the table lacks is no error.
ErrorForStatusKnownOnly(status) ==
    IF status = 0 THEN NilErr
    ELSE IF status \in DOMAIN statusName THEN <<statusName[status]>>
    ELSE NilErr

\* Mutant: the test for success is status <= 0.
ErrorForStatusNonPositive(status) ==
    IF status <= 0 THEN NilErr
    ELSE IF status \in DOMAIN statusName THEN <<statusName[status]>>
    ELSE <<"unknown status ">> \o FormatInt(status)

\* Mutant: a status the table lacks is reported without its value.
ErrorForStatusNoValue(status) ==
    IF status = 0 THEN NilErr
    ELSE IF status \in DOMAIN statusName THEN <<statusName[status]>>
    ELSE <<"unknown status">>

\* func ErrorForStatus(status int) error
ErrorForStatus(status) ==
    IF status = 0 THEN NilErr
    ELSE IF status \in DOMAIN statusName THEN <<statusName[status]>>
    ELSE <<"unknown status ">> \o FormatInt(status)

(***************************************************************************)
(* client.go: configuration, inputs and the values exchanged.              *)
(***************************************************************************)
\* Controller.BaseURL: the only field of a Controller, never written.
BaseURL == "http://luxor"

\* The facade methods used as endpoints (all are the same boilerplate).
Methods == {"ThemeGet", "GroupListGet"}

\* The tokens a caller may pass: context.Background(), context.WithCancel,
\* context.WithDeadline, and the deadlineContext of client_test.go, which
\* carries a deadline but whose Done channel never fires.
CtxKinds == {"Background", "WithCancel", "WithDeadline", "deadlineContext"}

HasDeadline(kind) == kind \in {"WithDeadline", "deadlineContext"}

\* resultChannel := make(chan httpResult, 1)
ChanCap == 1

\* resp := &protocol.XResponse{}: the zero value of a response.
ZeroResponse == [Status |-> 0, Groups |-> <<>>]

BodyStatus1 == "{\"Status\":1}"
BodyStatus7 == "{\"Status\":7}"
BodyGroups == "{\"Groups\":[{\"GroupNumber\":0,\"Intensity\":26},{\"GroupNumber\":1,\"Intensity\":42}]}"
BodyGroupsBadStatus == "{\"Groups\":[{\"GroupNumber\":0,\"Intensity\":26},{\"GroupNumber\":1,\"Intensity\":42}],\"Status\":\"x\"}"
TwoGroups == << [GroupNumber |-> 0, Intensity |-> 26], [GroupNumber |-> 1, Intensity |-> 42] >>

\* The bodies a server may send.
Bodies == {"asdf", "{}", BodyStatus1, BodyStatus7, BodyGroups, BodyGroupsBadStatus}

ContentTypes == {"application/json", "text/plain", "", "application/json; charset=utf-8"}

StatusLine(code) == IF code = 200 THEN "200 OK" ELSE "500 Internal Server Error"

\* What a server may answer: status code, Content-Type header and body.
Responses == [StatusCode : {200, 500}, ContentType : ContentTypes, Body : Bodies]

NoResponse == [StatusCode |-> 0, ContentType |-> "", Body |-> ""]

\* the %q verb of fmt: the text between quotation marks (the escaping of the
\* characters inside it is not modelled).
Quote(s) == <<"\"", s, "\"">>

\* The payloads of request.  A facade method passes the request struct of
\* package protocol that it was given (integers, strings and slices of them),
\* which always serializes; request itself takes an interface{}, so a payload
\* that json.Marshal rejects is an input of request too.
Payloads == {"request struct", "unserializable"}

\* The error of json.Marshal(request) when it fails.
MarshalErr == <<"json: unsupported type">>

\* serializedReq of serializedReq, err := json.Marshal(request): the JSON
\* object of the request struct of the method (ThemeGetRequest{ThemeIndex: 0},
\* GroupListGetRequest{}); nothing when json.Marshal fails.
SerializedReq(m, p) ==
    IF p # "request struct" THEN ""
    ELSE IF m = "ThemeGet" THEN "{\"ThemeIndex\":0}"
    ELSE "{}"

\* httpClient.Post(url, "application/json", bytes.NewReader(serializedReq)):
\* the request on the wire.
PostRequest(url, serializedReq) ==
    [Verb |-> "POST", URL |-> url, ContentType |-> "application/json",
     Body |-> serializedReq]

NoRequest == [Verb |-> "", URL |-> <<>>, ContentType |-> "", Body |-> ""]

\* Mutant: the error of json.Marshal is not checked.
MarshalUnchecked(p) == NilErr

\* err of serializedReq, err := json.Marshal(request)
Marshal(p) == IF p = "request struct" THEN NilErr ELSE MarshalErr

\* Mutant: a body without the Status field is an error.
UnmarshalStatusRequired(body, response) ==
    CASE body = BodyStatus1 -> [err |-> NilErr, val |-> [response EXCEPT !.Status = 1]]
      [] body = BodyStatus7 -> [err |-> NilErr, val |-> [response EXCEPT !.Status = 7]]
      [] body = "{}" -> [err |-> <<"json: missing field Status">>, val |-> response]
      [] body = BodyGroups ->
            [err |-> <<"json: missing field Status">>,
             val |-> [response EXCEPT !.Groups = TwoGroups]]
      [] body = BodyGroupsBadStatus ->
            [err |-> <<"json: cannot unmarshal string into Go struct field .Status of type int">>,
             val |-> [response EXCEPT !.Groups = TwoGroups]]
      [] OTHER -> [err |-> <<"invalid character 'a' looking for beginning of value">>,
                   val |-> response]

\* json.Unmarshal(body, response): the error (NilErr on success) and the
\* response as it is left.  A body that is not JSON is rejected before
\* anything is written; a field of the wrong type is skipped, the other
\* fields are written and the type error is returned; a field that the body
\* lacks keeps the value it had.
Unmarshal(body, response) ==
    CASE body = "{}" -> [err |-> NilErr, val |-> response]
      [] body = BodyStatus1 -> [err |-> NilErr, val |-> [response EXCEPT !.Status = 1]]
      [] body = BodyStatus7 -> [err |-> NilErr, val |-> [response EXCEPT !.Status = 7]]
      [] body = BodyGroups -> [err |-> NilErr, val |-> [response EXCEPT !.Groups = TwoGroups]]
      [] body = BodyGroupsBadStatus ->
            [err |-> <<"json: cannot unmarshal string into Go struct field .Status of type int">>,
             val |-> [response EXCEPT !.Groups = TwoGroups]]
      [] OTHER -> [err |-> <<"invalid character 'a' looking for beginning of value">>,
                   val |-> response]

(***************************************************************************)
(* State.                                                                  *)
(***************************************************************************)
VARIABLES
    now,            \* time.Now()
    ctxKind,        \* per call: the kind of its token
    deadline,       \* per call: the token's deadline (when it has one)
    ctxErr,         \* per call: ctx.Err(); Done() is closed iff it is not nil
    pc,             \* per call: "idle", "race" (the select of request), "returned";
                    \* "unused" for a call that is not made in the run
    via,            \* per call: the return statement of request that ended it
    method,         \* per call: the facade method invoked
    payload,        \* per call: the request payload
    doneAtCall,     \* per call: Done() was closed when the method was invoked
    elapsedAtCall,  \* per call: the deadline had passed when the method was invoked
    timeout,        \* per call: the timeout handed to doPost
    gpc,            \* per call: the doPost goroutine: "none", "post", "read", "done"
    posts,          \* per call: the number of doPost goroutines started
    srvReceived,    \* per call: the number of requests the server received
    srvRequest,     \* per call: the request the server received
    httpResp,       \* per call: the response httpClient.Post returned
    bodyState,      \* per call: httpResp.Body: "none", "open", "closed"
    ioErr,          \* per call: the err of httpClient.Post or ioutil.ReadAll in doPost
    resultChannel,  \* per call: the buffered channel of httpResult
    sends,          \* per call: the number of sends on resultChannel
    first,          \* per call: which event of the race happened first
    resp,           \* per call: the response payload the facade allocated
    reqErr,         \* per call: the error request returned
    retResp,        \* per call: the response the facade returned (<<>> is nil)
    retErr,         \* per call: the error the facade returned
    status,         \* the argument of a direct ErrorForStatus call
    statusErr,      \* its result
    statusApplied   \* whether that call was made

ctxVars == <<ctxKind, deadline, ctxErr>>
callVars == <<pc, via, method, payload, doneAtCall, elapsedAtCall, timeout,
              resp, reqErr, retResp, retErr>>
goVars == <<gpc, posts, srvReceived, srvRequest, httpResp, bodyState, ioErr,
           resultChannel, sends>>
statusVars == <<status, statusErr, statusApplied>>
vars == <<now, ctxVars, callVars, goVars, first, statusVars>>

StatusInputs == (0 - MaxNegStatus) .. MaxStatus

\* The tokens: a token without a deadline has deadline 0, which is not read.
Tokens == { t \in [kind : CtxKinds, deadline : 0 .. MaxTime] :
              ~HasDeadline(t.kind) => t.deadline = 0 }

\* The token and the method of a call that is not made.
NoToken == [kind |-> "Background", deadline |-> 0]
NoMethod == "ThemeGet"

\* A run in which the calls of made are issued, with tokens of toks.
InitRun(made, toks) ==
    /\ now = 0
    /\ \E tok \in [Calls -> Tokens] :
          /\ \A c \in Calls : tok[c] \in (IF c \in made THEN toks ELSE {NoToken})
          /\ ctxKind = [c \in Calls |-> tok[c].kind]
          /\ deadline = [c \in Calls |-> tok[c].deadline]
    /\ ctxErr = [c \in Calls |-> NilErr]
    /\ pc = [c \in Calls |-> IF c \in made THEN "idle" ELSE "unused"]
    /\ via = [c \in Calls |-> "none"]
    /\ method \in [Calls -> Methods]
    /\ \A c \in Calls \ made : method[c] = NoMethod
    /\ payload = [c \in Calls |-> "request struct"]
    /\ doneAtCall = [c \in Calls |-> FALSE]
    /\ elapsedAtCall = [c \in Calls |-> FALSE]
    /\ timeout = [c \in Calls |-> 0]
    /\ gpc = [c \in Calls |-> "none"]
    /\ posts = [c \in Calls |-> 0]
    /\ srvReceived = [c \in Calls |-> 0]
    /\ srvRequest = [c \in Calls |-> NoRequest]
    /\ httpResp = [c \in Calls |-> NoResponse]
    /\ bodyState = [c \in Calls |-> "none"]
    /\ ioErr = [c \in Calls |-> NilErr]
    /\ resultChannel = [c \in Calls |-> <<>>]
    /\ sends = [c \in Calls |-> 0]
    /\ first = [c \in Calls |-> "none"]
    /\ resp = [c \in Calls |-> ZeroResponse]
    /\ reqErr = [c \in Calls |-> NilErr]
    /\ retResp = [c \in Calls |-> <<>>]
    /\ retErr = [c \in Calls |-> NilErr]

\* One call, with any token.
InitCalls == InitRun({"c1"}, Tokens)

Init ==
    /\ InitCalls
    /\ status = 0
    /\ statusErr = NilErr
    /\ statusApplied = FALSE

(***************************************************************************)
(* The token and the clock.                                                *)
(***************************************************************************)
\* <-ctx.Done() can proceed
Done(c) == ctxErr[c] # NilErr

\* The event that comes first while the call is in its select.
NoteFirst(c, event) ==
    first' = IF pc[c] = "race" /\ first[c] = "none"
             THEN [first EXCEPT ![c] = event] ELSE first

\* cancel(): the caller, or anyone holding the cancel function, cancels.
Cancel(c) ==
    /\ ctxKind[c] \in {"WithCancel", "WithDeadline"}
    /\ ~Done(c)
    /\ ctxErr' = [ctxErr EXCEPT ![c] = Canceled]
    /\ NoteFirst(c, "done")
    /\ UNCHANGED <<now, ctxKind, deadline, callVars, goVars, statusVars>>

\* The timer of a context.WithDeadline token fires once the deadline passed.
DeadlineFires(c) ==
    /\ ctxKind[c] = "WithDeadline"
    /\ now >= deadline[c]
    /\ ~Done(c)
    /\ ctxErr' = [ctxErr EXCEPT ![c] = DeadlineExceeded]
    /\ NoteFirst(c, "done")
    /\ UNCHANGED <<now, ctxKind, deadline, callVars, goVars, statusVars>>

Tick ==
    /\ now < MaxTime
    /\ now' = now + 1
    /\ UNCHANGED <<ctxVars, callVars, goVars, first, statusVars>>

(***************************************************************************)
(* client.go: the facade methods and Controller.request.                   *)
(***************************************************************************)
\* Mutant: the facade returns the response even when request failed.
FacadeKeepsResponse(err, r) ==
    [resp |-> <<r>>, err |-> IF err # NilErr THEN err ELSE ErrorForStatus(r.Status)]

\* A facade method after request returned: (nil, err) when request failed,
\* else (resp, protocol.ErrorForStatus(resp.Status)).
Facade(err, r) ==
    IF err # NilErr
    THEN [resp |-> <<>>, err |-> err]
    ELSE [resp |-> <<r>>, err |-> ErrorForStatus(r.Status)]

\* Mutant: a failed exchange is retried: the call starts over.
ReturnsOrRetries(c, stmt, err, r) ==
    /\ pc' = [pc EXCEPT ![c] = IF stmt = "result" /\ err # NilErr
                               THEN "idle" ELSE "returned"]
    /\ via' = [via EXCEPT ![c] = stmt]
    /\ reqErr' = [reqErr EXCEPT ![c] = err]
    /\ resp' = [resp EXCEPT ![c] = r]
    /\ retResp' = [retResp EXCEPT ![c] = Facade(err, r).resp]
    /\ retErr' = [retErr EXCEPT ![c] = Facade(err, r).err]

\* request returns err at the return statement stmt, having left the response
\* payload as r; the facade method then returns to its caller.
Returns(c, stmt, err, r) ==
    /\ pc' = [pc EXCEPT ![c] = "returned"]
    /\ via' = [via EXCEPT ![c] = stmt]
    /\ reqErr' = [reqErr EXCEPT ![c] = err]
    /\ resp' = [resp EXCEPT ![c] = r]
    /\ retResp' = [retResp EXCEPT ![c] = Facade(err, r).resp]
    /\ retErr' = [retErr EXCEPT ![c] = Facade(err, r).err]

\* The call is made with payload p.
Invoked(c, p) ==
    /\ pc[c] = "idle"
    /\ payload' = [payload EXCEPT ![c] = p]
    /\ doneAtCall' = [doneAtCall EXCEPT ![c] = Done(c)]
    /\ elapsedAtCall' = [elapsedAtCall EXCEPT ![c] =
                            HasDeadline(ctxKind[c]) /\ deadline[c] - now <= 0]

\* Mutant: request does not look at the token before dispatching.
PreflightSkipped(c) == FALSE

\* select { case <-ctx.Done(): return ctx.Err(); default: }
PreflightCanceled(c) == Done(c)

\* deadline.Sub(time.Now())
Remaining(c) == deadline[c] - now

\* Mutant: only a negative remaining time counts as elapsed.
ElapsedStrict(t) == t < 0

\* Mutant: the remaining time is not checked before dispatch.
ElapsedNever(t) == FALSE

\* if timeout <= 0 { return context.Canceled }
Elapsed(t) == t <= 0

\* timeout := time.Duration(0); if deadlineOk { timeout = deadline.Sub(time.Now()) }
Timeout(c) == IF HasDeadline(ctxKind[c]) THEN Remaining(c) ELSE 0

\* Mutant: the url lacks the ".json" suffix.
URLNoSuffix(m) == <<BaseURL, "/", m>>

\* c.BaseURL + "/" + method + ".json"
URL(m) == <<BaseURL, "/", m, ".json">>

\* json.Marshal fails: return err.
MarshalFails(c) ==
    /\ \E p \in Payloads :
          /\ Invoked(c, p)
          /\ Marshal(p) # NilErr
          /\ Returns(c, "marshal", Marshal(p), resp[c])
    /\ UNCHANGED <<now, ctxVars, method, timeout, goVars, first, statusVars>>

\* The token is already done: return ctx.Err().
AlreadyCanceled(c) ==
    /\ \E p \in Payloads : Invoked(c, p) /\ Marshal(p) = NilErr
    /\ PreflightCanceled(c)
    /\ Returns(c, "preflight", ctxErr[c], resp[c])
    /\ UNCHANGED <<now, ctxVars, method, timeout, goVars, first, statusVars>>

\* Mutant: doPost is started before the remaining time is checked.
DeadlineElapsedAfterDispatch(c) ==
    /\ \E p \in Payloads : Invoked(c, p) /\ Marshal(p) = NilErr
    /\ ~PreflightCanceled(c)
    /\ HasDeadline(ctxKind[c])
    /\ Elapsed(Timeout(c))
    /\ Returns(c, "deadline", Canceled, resp[c])
    /\ gpc' = [gpc EXCEPT ![c] = "post"]
    /\ posts' = [posts EXCEPT ![c] = @ + 1]
    /\ UNCHANGED <<now, ctxVars, method, timeout, srvReceived, srvRequest, httpResp,
                   bodyState, ioErr, resultChannel, sends, first, statusVars>>

\* The deadline has passed: return context.Canceled.
DeadlineElapsed(c) ==
    /\ \E p \in Payloads : Invoked(c, p) /\ Marshal(p) = NilErr
    /\ ~PreflightCanceled(c)
    /\ HasDeadline(ctxKind[c])
    /\ Elapsed(Timeout(c))
    /\ Returns(c, "deadline", Canceled, resp[c])
    /\ UNCHANGED <<now, ctxVars, method, timeout, goVars, first, statusVars>>

\* resultChannel := make(chan httpResult, 1); go c.doPost(...); then the select.
Dispatch(c) ==
    /\ \E p \in Payloads : Invoked(c, p) /\ Marshal(p) = NilErr
    /\ ~PreflightCanceled(c)
    /\ HasDeadline(ctxKind[c]) => ~Elapsed(Timeout(c))
    /\ timeout' = [timeout EXCEPT ![c] = Timeout(c)]
    /\ resultChannel' = [resultChannel EXCEPT ![c] = <<>>]
    /\ gpc' = [gpc EXCEPT ![c] = "post"]
    /\ posts' = [posts EXCEPT ![c] = @ + 1]
    /\ pc' = [pc EXCEPT ![c] = "race"]
    /\ UNCHANGED <<now, ctxVars, via, method, resp, reqErr, retResp, retErr,
                   srvReceived, srvRequest,
                   httpResp, bodyState, ioErr, sends, first, statusVars>>

\* Mutant: the select has no case for ctx.Done().
CanReceiveDoneNever(c) == FALSE

\* Mutant: the done case is a default case, taken without Done() being closed.
CanReceiveDoneDefault(c) == pc[c] = "race"

\* Mutant: a result is still taken off the channel after the call returned.
CanReceiveResultLate(c) == pc[c] \in {"race", "returned"} /\ Len(resultChannel[c]) > 0

\* Mutant: the select has no case for the result channel.
CanReceiveResultNever(c) == FALSE

\* The cases of the select that can proceed; when both can, Go picks either.
CanReceiveDone(c) == pc[c] = "race" /\ Done(c)
CanReceiveResult(c) == pc[c] = "race" /\ Len(resultChannel[c]) > 0

\* case <-ctx.Done(): return ctx.Err()
RaceCanceled(c) ==
    /\ CanReceiveDone(c)
    /\ Returns(c, "cancel", ctxErr[c], resp[c])
    /\ UNCHANGED <<now, ctxVars, method, payload, doneAtCall, elapsedAtCall,
                   timeout, goVars, first, statusVars>>

\* Mutant: the JSON error does not quote the body.
JSONErrorNoBody(err, body) == <<"JSON error: ">> \o err

\* What request returns for a received result: the error and the response.
JSONError(err, body) ==
    <<"JSON error: ">> \o err \o <<" while parsing body: ">> \o Quote(body)

\* Mutant: request itself turns a Status other than 0 into its error.
ReceivedChecksStatus(result, r) ==
    IF result.err # NilErr
    THEN [err |-> result.err, val |-> r]
    ELSE LET u == Unmarshal(result.body[1], r)
         IN  IF u.err # NilErr
             THEN [err |-> JSONError(u.err, result.body[1]), val |-> u.val]
             ELSE [err |-> ErrorForStatus(u.val.Status), val |-> u.val]

\* Mutant: a result without error is accepted without decoding its body.
ReceivedUndecoded(result, r) == [err |-> result.err, val |-> r]

Received(result, r) ==
    IF result.err # NilErr
    THEN [err |-> result.err, val |-> r]
    ELSE LET u == Unmarshal(result.body[1], r)
         IN  IF u.err # NilErr
             THEN [err |-> JSONError(u.err, result.body[1]), val |-> u.val]
             ELSE [err |-> NilErr, val |-> u.val]

\* case result := <-resultChannel: ...
RaceResult(c) ==
    /\ CanReceiveResult(c)
    /\ LET result == Head(resultChannel[c])
           out == Received(result, resp[c])
       IN  Returns(c, "result", out.err, out.val)
    /\ resultChannel' = [resultChannel EXCEPT ![c] = Tail(@)]
    /\ UNCHANGED <<now, ctxVars, method, payload, doneAtCall, elapsedAtCall,
                   timeout, gpc, posts, srvReceived, srvRequest,
                   httpResp, bodyState, ioErr,
                   sends, first, statusVars>>

(***************************************************************************)
(* client.go: Controller.doPost, the goroutine doing the HTTP exchange.    *)
(***************************************************************************)
\* The error of httpClient.Post for a url and a cause.
PostErr(m, cause) == <<"Post ">> \o URL(m) \o <<": ", cause>>

\* res.err = err
ErrResult(err) == [body |-> <<>>, err |-> err]

\* Mutant: res.body is set before the checks, so a failed check sends the
\* body along with the error.
ValidateKeepsBody(r) ==
    IF r.StatusCode # 200
    THEN [body |-> <<r.Body>>,
          err |-> <<"Unexpected HTTP status: ">> \o Quote(StatusLine(r.StatusCode))
                  \o <<" with body: ">> \o Quote(r.Body)]
    ELSE IF r.ContentType # "application/json"
    THEN [body |-> <<r.Body>>,
          err |-> <<"Unexpected response content type: ">> \o Quote(r.ContentType)
                  \o <<" with body: ">> \o Quote(r.Body)]
    ELSE [body |-> <<r.Body>>, err |-> NilErr]

\* Mutant: the content type is checked before the status code.
ValidateContentTypeFirst(r) ==
    IF r.ContentType # "application/json"
    THEN ErrResult(<<"Unexpected response content type: ">> \o Quote(r.ContentType)
                   \o <<" with body: ">> \o Quote(r.Body))
    ELSE IF r.StatusCode # 200
    THEN ErrResult(<<"Unexpected HTTP status: ">> \o Quote(StatusLine(r.StatusCode))
                   \o <<" with body: ">> \o Quote(r.Body))
    ELSE [body |-> <<r.Body>>, err |-> NilErr]

\* Mutant: the content type is compared as a media type, parameters ignored.
ValidateMediaType(r) ==
    IF r.StatusCode # 200
    THEN ErrResult(<<"Unexpected HTTP status: ">> \o Quote(StatusLine(r.StatusCode))
                   \o <<" with body: ">> \o Quote(r.Body))
    ELSE IF r.ContentType \notin {"application/json", "application/json; charset=utf-8"}
    THEN ErrResult(<<"Unexpected response content type: ">> \o Quote(r.ContentType)
                   \o <<" with body: ">> \o Quote(r.Body))
    ELSE [body |-> <<r.Body>>, err |-> NilErr]

\* The checks of doPost on a response whose body was read: the status code,
\* then the content type, then res.body = body.
Validate(r) ==
    IF r.StatusCode # 200
    THEN ErrResult(<<"Unexpected HTTP status: ">> \o Quote(StatusLine(r.StatusCode))
                   \o <<" with body: ">> \o Quote(r.Body))
    ELSE IF r.ContentType # "application/json"
    THEN ErrResult(<<"Unexpected response content type: ">> \o Quote(r.ContentType)
                   \o <<" with body: ">> \o Quote(r.Body))
    ELSE [body |-> <<r.Body>>, err |-> NilErr]

\* Mutant: the Controller holds one result channel per call slot and doPost
\* sends to any of them.
SendShared(c, res) ==
    /\ \E d \in Calls :
          /\ Len(resultChannel[d]) < ChanCap
          /\ resultChannel' = [resultChannel EXCEPT ![d] = Append(@, res)]
    /\ sends' = [sends EXCEPT ![c] = @ + 1]
    /\ NoteFirst(c, "result")

\* Mutant: the channel is unbuffered, so a send needs the receiver waiting.
SendUnbuffered(c, res) ==
    /\ pc[c] = "race"
    /\ Len(resultChannel[c]) < ChanCap
    /\ resultChannel' = [resultChannel EXCEPT ![c] = Append(@, res)]
    /\ sends' = [sends EXCEPT ![c] = @ + 1]
    /\ NoteFirst(c, "result")

\* result <- res: proceeds only while the buffer has room.
Send(c, res) ==
    /\ Len(resultChannel[c]) < ChanCap
    /\ resultChannel' = [resultChannel EXCEPT ![c] = Append(@, res)]
    /\ sends' = [sends EXCEPT ![c] = @ + 1]
    /\ NoteFirst(c, "result")

\* Mutant: the http.Client is built without its Timeout.
TimerExpiredNever(c) == FALSE

\* http.Client{Timeout: timeout}: the timer runs only for a timeout > 0, and
\* has expired once the deadline it was computed from has passed.
TimerExpired(c) == timeout[c] > 0 /\ now >= deadline[c]

\* The request reaches the server.
ServerReceives(c) ==
    /\ gpc[c] = "post"
    /\ srvReceived[c] = 0
    /\ srvReceived' = [srvReceived EXCEPT ![c] = @ + 1]
    /\ srvRequest' = [srvRequest EXCEPT ![c] =
                         PostRequest(URL(method[c]), SerializedReq(method[c], payload[c]))]
    /\ UNCHANGED <<now, ctxVars, callVars, gpc, posts, httpResp, bodyState, ioErr,
                   resultChannel, sends, first, statusVars>>

\* httpClient.Post returns an error: the connection fails.
PostFails(c) ==
    /\ gpc[c] = "post"
    /\ \E cause \in {"connection refused", "connection reset by peer"} :
          /\ cause = "connection refused" => srvReceived[c] = 0
          /\ cause = "connection reset by peer" => srvReceived[c] > 0
          /\ ioErr' = [ioErr EXCEPT ![c] = PostErr(method[c], cause)]
          /\ Send(c, ErrResult(PostErr(method[c], cause)))
    /\ gpc' = [gpc EXCEPT ![c] = "done"]
    /\ UNCHANGED <<now, ctxVars, callVars, posts, srvReceived, srvRequest,
                   httpResp, bodyState,
                   statusVars>>

\* The timer of the http.Client fires: Post, or ReadAll, returns the timeout
\* error; after Post returned a response the deferred Close runs.
ClientTimeout(c) ==
    /\ gpc[c] \in {"post", "read"}
    /\ TimerExpired(c)
    /\ ioErr' = [ioErr EXCEPT ![c] =
                    IF gpc[c] = "post"
                    THEN PostErr(method[c], "Client.Timeout exceeded")
                    ELSE <<"Client.Timeout exceeded while reading body">>]
    /\ Send(c, ErrResult(ioErr'[c]))
    /\ bodyState' = [bodyState EXCEPT ![c] = IF gpc[c] = "read" THEN "closed" ELSE @]
    /\ gpc' = [gpc EXCEPT ![c] = "done"]
    /\ UNCHANGED <<now, ctxVars, callVars, posts, srvReceived, srvRequest,
                   httpResp, statusVars>>

\* httpClient.Post returns the server's response; defer httpResp.Body.Close().
PostReturns(c) ==
    /\ gpc[c] = "post"
    /\ srvReceived[c] > 0
    /\ \E r \in Responses : httpResp' = [httpResp EXCEPT ![c] = r]
    /\ bodyState' = [bodyState EXCEPT ![c] = "open"]
    /\ gpc' = [gpc EXCEPT ![c] = "read"]
    /\ UNCHANGED <<now, ctxVars, callVars, posts, srvReceived, srvRequest,
                   ioErr, resultChannel,
                   sends, first, statusVars>>

\* Mutant: the body is closed only after a successful read.
ReadFailsNoClose(c) ==
    /\ gpc[c] = "read"
    /\ ioErr' = [ioErr EXCEPT ![c] = <<"unexpected EOF">>]
    /\ Send(c, ErrResult(ioErr'[c]))
    /\ gpc' = [gpc EXCEPT ![c] = "done"]
    /\ UNCHANGED <<now, ctxVars, callVars, posts, srvReceived, srvRequest,
                   httpResp, bodyState, statusVars>>

\* ioutil.ReadAll fails (the stream breaks): the error is sent and the
\* deferred Close runs.
ReadFails(c) ==
    /\ gpc[c] = "read"
    /\ ioErr' = [ioErr EXCEPT ![c] = <<"unexpected EOF">>]
    /\ Send(c, ErrResult(ioErr'[c]))
    /\ bodyState' = [bodyState EXCEPT ![c] = "closed"]
    /\ gpc' = [gpc EXCEPT ![c] = "done"]
    /\ UNCHANGED <<now, ctxVars, callVars, posts, srvReceived, srvRequest,
                   httpResp, statusVars>>

\* ioutil.ReadAll returns the body: the response is checked, the result is
\* sent and the deferred Close runs.
ReadReturns(c) ==
    /\ gpc[c] = "read"
    /\ Send(c, Validate(httpResp[c]))
    /\ bodyState' = [bodyState EXCEPT ![c] = "closed"]
    /\ gpc' = [gpc EXCEPT ![c] = "done"]
    /\ UNCHANGED <<now, ctxVars, callVars, posts, srvReceived, srvRequest,
                   httpResp, ioErr,
                   statusVars>>

(***************************************************************************)
(* client.go: the context-propagating variant of Controller.request.       *)
(***************************************************************************)
\* Mutant: the variant does not check the content type.
RequestWithContextAnyType(p, exch, r) ==
    IF Marshal(p) # NilErr THEN [err |-> Marshal(p), val |-> r]
    ELSE IF exch.err # NilErr THEN [err |-> exch.err, val |-> r]
    ELSE IF exch.resp.StatusCode # 200
    THEN [err |-> <<"Unexpected HTTP status: ">> \o Quote(StatusLine(exch.resp.StatusCode))
                  \o <<" with body: ">> \o Quote(exch.resp.Body),
          val |-> r]
    ELSE LET u == Unmarshal(exch.resp.Body, r)
         IN  IF u.err # NilErr
             THEN [err |-> <<"JSON error: ">> \o u.err \o <<" while parsing body: ">>
                           \o Quote(exch.resp.Body),
                   val |-> u.val]
             ELSE [err |-> NilErr, val |-> u.val]

\* What the variant returns, and how it leaves the response r, for a payload
\* p and an exchange exch that completed under a token that is never done:
\* exch.err is the err of http.DefaultClient.Do or of ioutil.ReadAll, if
\* any, and exch.resp the response otherwise.
RequestWithContext(p, exch, r) ==
    IF Marshal(p) # NilErr THEN [err |-> Marshal(p), val |-> r]
    ELSE IF exch.err # NilErr THEN [err |-> exch.err, val |-> r]
    ELSE IF exch.resp.StatusCode # 200
    THEN [err |-> <<"Unexpected HTTP status: ">> \o Quote(StatusLine(exch.resp.StatusCode))
                  \o <<" with body: ">> \o Quote(exch.resp.Body),
          val |-> r]
    ELSE IF exch.resp.ContentType # "application/json"
    THEN [err |-> <<"Unexpected response content type: ">> \o Quote(exch.resp.ContentType)
                  \o <<" with body: ">> \o Quote(exch.resp.Body),
          val |-> r]
    ELSE LET u == Unmarshal(exch.resp.Body, r)
         IN  IF u.err # NilErr
             THEN [err |-> <<"JSON error: ">> \o u.err \o <<" while parsing body: ">>
                           \o Quote(exch.resp.Body),
                   val |-> u.val]
             ELSE [err |-> NilErr, val |-> u.val]

\* The exchange of call c as the transport delivered it.
Exchange(c) == [err |-> ioErr[c], resp |-> httpResp[c]]

(***************************************************************************)
(* A direct call of protocol.ErrorForStatus.                               *)
(***************************************************************************)
InitStatus ==
    /\ InitCalls
    /\ status \in StatusInputs
    /\ statusErr = NilErr
    /\ statusApplied = FALSE

CallErrorForStatus ==
    /\ ~statusApplied
    /\ statusErr' = ErrorForStatus(status)
    /\ statusApplied' = TRUE
    /\ UNCHANGED <<now, ctxVars, callVars, goVars, first, status>>

(***************************************************************************)
(* Specifications.                                                         *)
(***************************************************************************)
Request(c) ==
    \/ MarshalFails(c)
    \/ AlreadyCanceled(c)
    \/ DeadlineElapsed(c)
    \/ Dispatch(c)
    \/ RaceCanceled(c)
    \/ RaceResult(c)

DoPost(c) ==
    \/ PostFails(c)
    \/ PostReturns(c)
    \/ ReadFails(c)
    \/ ReadReturns(c)
    \/ ClientTimeout(c)

Next ==
    \/ \E c \in Calls : Request(c)
    \/ \E c \in Calls : DoPost(c)
    \/ \E c \in Calls : ServerReceives(c)
    \/ \E c \in Calls : Cancel(c)
    \/ \E c \in Calls : DeadlineFires(c)
    \/ Tick

\* Calls against one Controller, with any token, payload and server.
Spec == Init /\ [][Next]_vars

\* The select of request is scheduled once one of its cases can proceed.
\* Nothing is assumed of the exchange: the server may stall for ever.
SpecCallerFair ==
    Spec /\ \A c \in Calls : WF_vars(RaceCanceled(c) \/ RaceResult(c))

\* Every goroutine that can run is scheduled, time passes, so timers fire,
\* and a connection attempt ends (the request reaches the server or Post
\* fails); the server, once it has the request, may stall for ever
\* (PostReturns, PostFails, ReadReturns, ReadFails), and nobody has to cancel.
FairSpec ==
    /\ Spec
    /\ WF_vars(Tick)
    /\ \A c \in Calls : WF_vars(ServerReceives(c))
    /\ \A c \in Calls : WF_vars(RaceCanceled(c) \/ RaceResult(c))
    /\ \A c \in Calls : WF_vars(ClientTimeout(c))
    /\ \A c \in Calls : WF_vars(DeadlineFires(c))

\* The tokens of the concurrent calls: none to cancel, a cancel function,
\* and a deadline one tick ahead.
ConcurrentTokens ==
    { t \in Tokens : t.kind \in {"Background", "WithCancel"}
                     \/ (t.kind = "WithDeadline" /\ t.deadline = 1) }

\* Both calls are made, of different methods.
InitConcurrent ==
    /\ InitRun(Calls, ConcurrentTokens)
    /\ method["c1"] = "ThemeGet" /\ method["c2"] = "GroupListGet"
    /\ status = 0
    /\ statusErr = NilErr
    /\ statusApplied = FALSE

\* What the server answers to the concurrent calls: the responses of the
\* tests (a good one, a bad status, a bad content type, a bad body).
ConcurrentResponses ==
    { r \in Responses :
        /\ r.Body \in {BodyGroups, "asdf"}
        /\ r.ContentType \in {"application/json", "text/plain"}
        /\ r.StatusCode = 500 => (r.ContentType = "text/plain" /\ r.Body = "asdf")
        /\ r.ContentType = "text/plain" => (r.StatusCode = 500 \/ r.Body = BodyGroups) }

NextConcurrent ==
    \/ \E c \in Calls : Request(c)
    \/ \E c \in Calls : PostReturns(c) /\ httpResp'[c] \in ConcurrentResponses
    \/ \E c \in Calls : PostFails(c) \/ ReadFails(c) \/ ReadReturns(c) \/ ClientTimeout(c)
    \/ \E c \in Calls : ServerReceives(c)
    \/ \E c \in Calls : Cancel(c)
    \/ \E c \in Calls : DeadlineFires(c)
    \/ Tick

\* Two calls running concurrently against the one Controller.
SpecConcurrent == InitConcurrent /\ [][NextConcurrent]_vars

\* ErrorForStatus applied to every status of StatusInputs.
SpecStatus == InitStatus /\ [][CallErrorForStatus]_vars

(***************************************************************************)
(* Claims.                                                                 *)
(***************************************************************************)
\* The error kind Canceled of the error taxonomy: cancellation requested or
\* deadline elapsed, i.e. context.Canceled or the token's own error value.
CanceledKind == {Canceled, DeadlineExceeded}

Returned(c) == pc[c] = "returned"

\* C1: a call made with a token that is already canceled never starts an
\* exchange and no request ever reaches the server for it; a Controller
\* method so called (its payload is a request struct) returns the token's
\* cancellation error, with a nil response.
C1_AlreadyCanceled ==
    \A c \in Calls :
        doneAtCall[c] =>
            /\ Returned(c)
            /\ posts[c] = 0 /\ srvReceived[c] = 0 /\ gpc[c] = "none"
            /\ retResp[c] = <<>> /\ retErr[c] # NilErr
            /\ payload[c] = "request struct" =>
                  /\ via[c] = "preflight"
                  /\ retErr[c] = ctxErr[c] /\ retErr[c] \in CanceledKind

C1_Witness ==
    \E c \in Calls :
        /\ doneAtCall[c] /\ payload[c] = "request struct" /\ via[c] = "preflight"
        /\ retErr[c] = Canceled /\ srvReceived[c] = 0

\* C2: a call whose token is canceled while its exchange is outstanding
\* returns, with the token's cancellation error for as long as the exchange
\* has produced no result, even if the exchange never completes (only the
\* select of request is assumed to be scheduled).
C2_CanceledWhileWaiting ==
    \A c \in Calls :
        (pc[c] = "race" /\ Done(c) /\ gpc[c] \in {"post", "read"})
            ~> (/\ Returned(c)
                /\ gpc[c] \in {"post", "read"} =>
                      /\ via[c] = "cancel"
                      /\ retErr[c] = ctxErr[c] /\ retErr[c] \in CanceledKind)

C2_Witness ==
    \E c \in Calls :
        /\ Returned(c) /\ via[c] = "cancel" /\ retErr[c] = Canceled
        /\ gpc[c] = "post" /\ srvReceived[c] = 1 /\ sends[c] = 0

\* C3: once a call has returned because of cancellation, nothing the
\* abandoned exchange does later reaches the caller: the returned error stays
\* the cancellation error, the returned response stays nil and the response
\* payload is not written.
C3_NoStaleDelivery ==
    [][\A c \in Calls :
          (Returned(c) /\ via[c] \in {"preflight", "deadline", "cancel"}) =>
              /\ retErr[c] \in CanceledKind /\ retResp[c] = <<>>
              /\ pc'[c] = pc[c] /\ via'[c] = via[c]
              /\ retErr'[c] = retErr[c] /\ retResp'[c] = retResp[c]
              /\ reqErr'[c] = reqErr[c] /\ resp'[c] = resp[c]]_vars

\* The abandoned exchange completed successfully after the call returned;
\* its result sits in the channel and the call's outcome is as it was.
C3_Witness ==
    \E c \in Calls :
        /\ Returned(c) /\ via[c] = "cancel" /\ retErr[c] = Canceled
        /\ retResp[c] = <<>> /\ resp[c] = ZeroResponse
        /\ gpc[c] = "done" /\ Len(resultChannel[c]) = 1
        /\ Head(resultChannel[c]).err = NilErr
        /\ Head(resultChannel[c]).body = <<BodyGroups>>

\* C4: a call made when its token's deadline has passed (deadline - now <= 0)
\* returns at once, whether or not the token's done-signal has fired: no
\* exchange is dispatched and no transport timeout is set; a Controller
\* method so called (its payload is a request struct) returns Canceled, or
\* the token's own error when the done-signal has fired.
C4_DeadlineElapsed ==
    \A c \in Calls :
        elapsedAtCall[c] =>
            /\ Returned(c)
            /\ posts[c] = 0 /\ srvReceived[c] = 0 /\ gpc[c] = "none" /\ timeout[c] = 0
            /\ retResp[c] = <<>> /\ retErr[c] # NilErr
            /\ payload[c] = "request struct" =>
                  /\ retErr[c] \in CanceledKind
                  /\ via[c] = (IF doneAtCall[c] THEN "preflight" ELSE "deadline")
                  /\ ~doneAtCall[c] => retErr[c] = Canceled

\* The deadline is exactly now and the done-signal has not fired.
C4_Witness ==
    \E c \in Calls :
        /\ elapsedAtCall[c] /\ ~doneAtCall[c] /\ ~Done(c) /\ payload[c] = "request struct"
        /\ deadline[c] = now
        /\ via[c] = "deadline" /\ retErr[c] = Canceled /\ posts[c] = 0

\* C5 as stated: the event of the race that occurs first decides: if the
\* done-signal fired before the exchange produced its result the call returns
\* the token's cancellation error, and if the result was produced first the
\* call proceeds with the result.
C5_AsStated ==
    \A c \in Calls :
        (Returned(c) /\ via[c] \in {"cancel", "result"}) =>
            /\ first[c] = "done" => via[c] = "cancel" /\ reqErr[c] = ctxErr[c]
            /\ first[c] = "result" => via[c] = "result"

\* C5, amended: the select decides by what has occurred when it runs.  If
\* only the done-signal has fired the call returns the token's cancellation
\* error; if only the exchange result has been produced the call takes the
\* result off the channel and proceeds with it; if both have occurred before
\* the select runs, either case may be taken, whichever occurred first.
C5_Race ==
    [][\A c \in Calls :
          (pc[c] = "race" /\ pc'[c] # "race") =>
              /\ Done(c) \/ Len(resultChannel[c]) > 0
              /\ pc'[c] = "returned" /\ via'[c] \in {"cancel", "result"}
              /\ (Done(c) /\ Len(resultChannel[c]) = 0) => via'[c] = "cancel"
              /\ (~Done(c) /\ Len(resultChannel[c]) > 0) => via'[c] = "result"
              /\ via'[c] = "cancel" =>
                    /\ Done(c) /\ reqErr'[c] = ctxErr[c] /\ retErr'[c] = ctxErr[c]
                    /\ resultChannel'[c] = resultChannel[c]
              /\ via'[c] = "result" =>
                    /\ Len(resultChannel[c]) > 0
                    /\ resultChannel'[c] = Tail(resultChannel[c])
                    /\ Head(resultChannel[c]).err # NilErr =>
                          reqErr'[c] = Head(resultChannel[c]).err
                    /\ reqErr'[c] = NilErr => Head(resultChannel[c]).err = NilErr]_vars

\* Both events occurred, the result first, and the select took the done case.
C5_Witness ==
    \E c \in Calls :
        /\ Returned(c) /\ via[c] = "cancel" /\ first[c] = "result"
        /\ reqErr[c] = ctxErr[c] /\ Len(resultChannel[c]) = 1

\* C6: after a call returned because of cancellation, the abandoned doPost
\* goroutine eventually terminates and the connection it holds is eventually
\* released.
C6_NoLeak ==
    \A c \in Calls :
        (Returned(c) /\ via[c] = "cancel")
            ~> (gpc[c] = "done" /\ bodyState[c] # "open")

\* C7: a facade method returns a non-nil error exactly when request failed
\* or the decoded response's Status is not 0.
C7_ErrorIff ==
    \A c \in Calls :
        Returned(c) =>
            (retErr[c] # NilErr <=> (reqErr[c] # NilErr \/ resp[c].Status # 0))

\* request succeeded and the device reported status 1.
C7_Witness ==
    \E c \in Calls :
        /\ Returned(c) /\ reqErr[c] = NilErr /\ resp[c].Status = 1
        /\ retErr[c] = <<"unknown method">>

\* C8: when request fails the facade returns a nil response and request's
\* error value unchanged; when request succeeds and Status is not 0 it
\* returns the decoded response together with the error of the status table.
C8_FacadeReturn ==
    \A c \in Calls :
        Returned(c) =>
            /\ reqErr[c] # NilErr => retResp[c] = <<>> /\ retErr[c] = reqErr[c]
            /\ via[c] \in {"preflight", "cancel"} => retErr[c] = ctxErr[c]
            /\ via[c] = "deadline" => retErr[c] = Canceled
            /\ (reqErr[c] = NilErr /\ resp[c].Status # 0) =>
                  /\ retResp[c] = <<resp[c]>>
                  /\ retErr[c] # NilErr
                  /\ resp[c].Status = 1 => retErr[c] = <<"unknown method">>
                  /\ resp[c].Status = 7 => retErr[c] = <<"unknown status ", "7">>

\* request failed on a body of which a part was decoded: the facade still
\* returns a nil response.
C8_Witness ==
    \E c \in Calls :
        /\ Returned(c) /\ via[c] = "result" /\ reqErr[c] # NilErr
        /\ resp[c].Groups = TwoGroups
        /\ retResp[c] = <<>> /\ retErr[c] = reqErr[c]

\* The status code table of the device, as documented.
KnownStatusTable ==
    (0 :> "ok") @@ (1 :> "unknown method") @@ (101 :> "unparseable request") @@
    (102 :> "invalid request") @@ (201 :> "precondition failed") @@
    (202 :> "group name in use") @@ (205 :> "group number in use") @@
    (243 :> "theme index out of range")

\* C9 as stated: for every status of the known table, 0 included,
\* ErrorForStatus returns an error whose description is the table's entry.
C9_AsStated ==
    (statusApplied /\ status \in DOMAIN KnownStatusTable) =>
        statusErr = <<KnownStatusTable[status]>>

\* C9, amended: for every status of the known table other than 0,
\* ErrorForStatus returns an error whose description is exactly the table's
\* entry; for 0 it returns nil, not an error described as "ok".
C9_KnownStatus ==
    (statusApplied /\ status \in DOMAIN KnownStatusTable) =>
        IF status = 0 THEN statusErr = NilErr
        ELSE statusErr = <<KnownStatusTable[status]>>

C9_Witness ==
    statusApplied /\ status = 243 /\ statusErr = <<"theme index out of range">>

\* C10: ErrorForStatus(0) is nil, and 0 is the only status for which it is:
\* every other integer, known, unknown or negative, yields a non-nil error.
C10_NilIffZero ==
    statusApplied => (statusErr = NilErr <=> status = 0)

C10_Witness ==
    statusApplied /\ status < 0 /\ statusErr # NilErr

\* The integer a decimal numeral (a sequence of digit characters, after an
\* optional minus sign) stands for; -1000000 for a sequence that is none.
DigitValue(ch) ==
    CASE ch = "0" -> 0 [] ch = "1" -> 1 [] ch = "2" -> 2 [] ch = "3" -> 3
      [] ch = "4" -> 4 [] ch = "5" -> 5 [] ch = "6" -> 6 [] ch = "7" -> 7
      [] ch = "8" -> 8 [] ch = "9" -> 9 [] OTHER -> 0 - 1

RECURSIVE NaturalValue(_)
NaturalValue(ds) ==
    IF Len(ds) = 1 THEN DigitValue(ds[1])
    ELSE NaturalValue(SubSeq(ds, 1, Len(ds) - 1)) * 10 + DigitValue(ds[Len(ds)])

IsNumeral(ds) ==
    /\ Len(ds) > 0
    /\ \A i \in 1 .. Len(ds) : DigitValue(ds[i]) >= 0
    /\ Len(ds) > 1 => ds[1] # "0"

DecimalValue(ds) ==
    IF ds # <<>> /\ ds[1] = "-"
    THEN IF IsNumeral(Tail(ds)) /\ Tail(ds) # <<"0">>
         THEN 0 - NaturalValue(Tail(ds)) ELSE 0 - 1000000
    ELSE IF IsNumeral(ds) THEN NaturalValue(ds) ELSE 0 - 1000000

\* C11: for every status that the known table lacks, negative ones included,
\* ErrorForStatus returns the error "unknown status <status>", where <status>
\* is the decimal numeral of the status itself; the error is not nil and is
\* not the description of any known code.
C11_UnknownStatus ==
    (statusApplied /\ status \notin DOMAIN KnownStatusTable) =>
        /\ statusErr # NilErr
        /\ Head(statusErr) = "unknown status "
        /\ DecimalValue(Tail(statusErr)) = status
        /\ \A s \in DOMAIN KnownStatusTable : statusErr # <<KnownStatusTable[s]>>

C11_Witness ==
    /\ statusApplied /\ status = 103
    /\ statusErr = <<"unknown status ", "1", "0", "3">>

\* The kinds of the error taxonomy, told apart by how the message starts.
ErrorKind(err) ==
    IF err = NilErr THEN "none"
    ELSE IF err \in CanceledKind THEN "Canceled"
    ELSE IF Head(err) = "Unexpected HTTP status: " THEN "UnexpectedHTTPStatus"
    ELSE IF Head(err) = "Unexpected response content type: " THEN "UnexpectedContentType"
    ELSE IF Head(err) = "JSON error: " THEN "MalformedResponse"
    ELSE IF Head(err) = "json: unsupported type" THEN "SerializationError"
    ELSE "TransportError"

\* The bodies that are JSON objects of the response shape.
DecodableBodies == {"{}", BodyStatus1, BodyStatus7, BodyGroups}

\* The first check, in the documented order, that the exchange of c fails.
FirstFailingCheck(c) ==
    IF ioErr[c] # NilErr THEN "TransportError"
    ELSE IF httpResp[c].StatusCode # 200 THEN "UnexpectedHTTPStatus"
    ELSE IF httpResp[c].ContentType # "application/json" THEN "UnexpectedContentType"
    ELSE IF httpResp[c].Body \notin DecodableBodies THEN "MalformedResponse"
    ELSE "none"

\* C12: a call that returns with the result of its exchange reports the
\* first check that fails in the order network or stream error, HTTP status
\* other than 200, content type other than application/json, JSON decoding,
\* whatever later checks would have failed too; a network or stream error is
\* returned as it is.
C12_ValidationOrder ==
    \A c \in Calls :
        (Returned(c) /\ via[c] = "result") =>
            /\ ErrorKind(reqErr[c]) = FirstFailingCheck(c)
            /\ ioErr[c] # NilErr => reqErr[c] = ioErr[c]

\* Status 500, content type text/plain and a body that is not JSON: the
\* status is reported.
C12_Witness ==
    \E c \in Calls :
        /\ Returned(c) /\ via[c] = "result" /\ ioErr[c] = NilErr
        /\ httpResp[c] = [StatusCode |-> 500, ContentType |-> "text/plain", Body |-> "asdf"]
        /\ ErrorKind(reqErr[c]) = "UnexpectedHTTPStatus"

\* C13: a response with status 200 whose Content-Type is not exactly the
\* string application/json (text/plain, the empty string, application/json
\* with a parameter) is rejected with the content type error, whatever its
\* body; the body is not decoded: the response payload keeps its zero value
\* and the facade returns a nil response.
C13_ContentTypeExact ==
    \A c \in Calls :
        (/\ Returned(c) /\ via[c] = "result" /\ ioErr[c] = NilErr
         /\ httpResp[c].StatusCode = 200
         /\ httpResp[c].ContentType # "application/json") =>
            /\ ErrorKind(reqErr[c]) = "UnexpectedContentType"
            /\ retErr[c] = reqErr[c]
            /\ resp[c] = ZeroResponse /\ retResp[c] = <<>>

\* The body is valid JSON of the response shape and the content type is
\* application/json with a charset parameter.
C13_Witness ==
    \E c \in Calls :
        /\ Returned(c) /\ via[c] = "result" /\ ioErr[c] = NilErr
        /\ httpResp[c] = [StatusCode |-> 200,
                          ContentType |-> "application/json; charset=utf-8",
                          Body |-> BodyGroups]
        /\ ErrorKind(retErr[c]) = "UnexpectedContentType"
        /\ resp[c] = ZeroResponse

\* The parse errors of the bodies that do not decode.
ParseErrors ==
    (BodyGroupsBadStatus :>
        <<"json: cannot unmarshal string into Go struct field .Status of type int">>) @@
    ("asdf" :> <<"invalid character 'a' looking for beginning of value">>)

\* C14: an error of a check made on the received response carries its cause
\* and the body as received: the status error the status line and the body,
\* the content type error the observed content type and the body, the JSON
\* error the parse error and the body.
C14_ErrorsCarryBody ==
    \A c \in Calls :
        (Returned(c) /\ via[c] = "result") =>
            LET err == retErr[c]
                r == httpResp[c]
            IN  /\ ErrorKind(reqErr[c]) = "UnexpectedHTTPStatus" =>
                      err = <<"Unexpected HTTP status: ", "\"",
                              "500 Internal Server Error", "\"",
                              " with body: ", "\"", r.Body, "\"">>
                /\ ErrorKind(reqErr[c]) = "UnexpectedContentType" =>
                      err = <<"Unexpected response content type: ", "\"",
                              r.ContentType, "\"",
                              " with body: ", "\"", r.Body, "\"">>
                /\ ErrorKind(reqErr[c]) = "MalformedResponse" =>
                      /\ r.Body \in DOMAIN ParseErrors
                      /\ err = <<"JSON error: ">> \o ParseErrors[r.Body]
                               \o <<" while parsing body: ", "\"", r.Body, "\"">>

\* The body of TestBadJson.
C14_Witness ==
    \E c \in Calls :
        /\ Returned(c) /\ via[c] = "result"
        /\ httpResp[c] = [StatusCode |-> 200, ContentType |-> "application/json",
                          Body |-> "asdf"]
        /\ retErr[c] = <<"JSON error: ",
                         "invalid character 'a' looking for beginning of value",
                         " while parsing body: ", "\"", "asdf", "\"">>

\* C15: a call starts at most one exchange, and exactly one once it got past
\* the checks made before dispatch; the server receives at most one request
\* for it and at most one result is produced; a call that has returned,
\* with whatever error, has not started another exchange.
C15_OneExchange ==
    \A c \in Calls :
        /\ posts[c] \in {0, 1}
        /\ srvReceived[c] <= posts[c] /\ sends[c] <= posts[c]
        /\ pc[c] = "race" => posts[c] = 1
        /\ Returned(c) =>
              posts[c] = (IF via[c] \in {"cancel", "result"} THEN 1 ELSE 0)

\* The exchange failed on a malformed body and the call returned the error.
C15_Witness ==
    \E c \in Calls :
        /\ Returned(c) /\ via[c] = "result"
        /\ ErrorKind(retErr[c]) = "MalformedResponse"
        /\ posts[c] = 1 /\ srvReceived[c] = 1 /\ gpc[c] = "done"

\* C16: a call dispatched with a token whose deadline lies in the future
\* hands the remaining duration to the exchange as its timeout, and then
\* eventually returns: with the result of a completed exchange, or else with
\* a non-nil error, also when the exchange stalls and the token's done-signal
\* never fires (the deadlineContext token).
C16_TimeoutFromDeadline ==
    /\ [][\A c \in Calls :
             (pc[c] = "idle" /\ pc'[c] = "race" /\ HasDeadline(ctxKind[c])) =>
                 timeout'[c] = deadline[c] - now /\ timeout'[c] > 0]_vars
    /\ \A c \in Calls :
          (pc[c] = "race" /\ HasDeadline(ctxKind[c]))
              ~> (/\ Returned(c)
                  /\ (via[c] = "result" /\ ioErr[c] = NilErr) \/ retErr[c] # NilErr)

\* The done-signal never fired, the server stalled after receiving the
\* request and the call returned the timeout error of the http.Client.
C16_Witness ==
    \E c \in Calls :
        /\ Returned(c) /\ ctxKind[c] = "deadlineContext" /\ ~Done(c)
        /\ timeout[c] > 0 /\ now >= deadline[c]
        /\ srvReceived[c] = 1 /\ httpResp[c] = NoResponse
        /\ via[c] = "result"
        /\ retErr[c] = <<"Post ", BaseURL, "/", method[c], ".json", ": ",
                         "Client.Timeout exceeded">>

\* C17: an exchange is dispatched with a strictly positive timeout whenever
\* the token carries a deadline, and with the timeout 0 (no limit) only when
\* the token carries none.
C17_PositiveTimeout ==
    \A c \in Calls :
        posts[c] > 0 =>
            /\ HasDeadline(ctxKind[c]) => timeout[c] > 0
            /\ timeout[c] = 0 <=> ~HasDeadline(ctxKind[c])
            /\ timeout[c] >= 0

\* A token with a deadline one tick ahead: dispatched with timeout 1.
C17_Witness ==
    \E c \in Calls :
        /\ posts[c] = 1 /\ ctxKind[c] = "deadlineContext"
        /\ deadline[c] = 1 /\ timeout[c] = 1 /\ gpc[c] = "post"

\* Everything that belongs to one call.
CallState(c) ==
    <<ctxKind[c], deadline[c], ctxErr[c], pc[c], via[c], method[c], payload[c],
      doneAtCall[c], elapsedAtCall[c], timeout[c], gpc[c], posts[c], srvReceived[c],
      srvRequest[c],
      httpResp[c], bodyState[c], ioErr[c], resultChannel[c], sends[c], first[c],
      resp[c], reqErr[c], retResp[c], retErr[c]>>

\* The values the bodies that decode hold, for a response that was zero.
BodyValues ==
    ("{}" :> [Status |-> 0, Groups |-> <<>>]) @@
    (BodyStatus1 :> [Status |-> 1, Groups |-> <<>>]) @@
    (BodyStatus7 :> [Status |-> 7, Groups |-> <<>>]) @@
    (BodyGroups :>
        [Status |-> 0,
         Groups |-> << [GroupNumber |-> 0, Intensity |-> 26],
                       [GroupNumber |-> 1, Intensity |-> 42] >>])

\* The outcome of a returned call is the one its own token and its own
\* exchange give.
OwnOutcome(c) ==
    /\ via[c] \in {"preflight", "cancel"} => retErr[c] = ctxErr[c]
    /\ via[c] = "deadline" => retErr[c] = Canceled
    /\ via[c] = "result" =>
          /\ ErrorKind(reqErr[c]) = FirstFailingCheck(c)
          /\ ioErr[c] # NilErr => retErr[c] = ioErr[c]
          /\ ErrorKind(reqErr[c]) \in {"UnexpectedHTTPStatus", "UnexpectedContentType",
                                       "MalformedResponse"} =>
                retErr[c][Len(retErr[c]) - 1] = httpResp[c].Body
          /\ reqErr[c] = NilErr =>
                /\ resp[c] = BodyValues[httpResp[c].Body]
                /\ retResp[c] = <<resp[c]>>
    /\ \A i \in 1 .. Len(resultChannel[c]) :
          LET res == resultChannel[c][i]
          IN  /\ gpc[c] = "done"
              /\ res.err = NilErr => res.body = <<httpResp[c].Body>>
              /\ ioErr[c] # NilErr => res.err = ioErr[c]

\* C18: with two calls running concurrently against the one Controller, in
\* every interleaving every step belongs to one call and changes nothing of
\* the other, a result channel holds only the result of the exchange of its
\* own call, and a call that returned has the outcome its own token and its
\* own exchange determine.
C18_Independent ==
    /\ [][\A c, d \in Calls :
             c # d => (CallState(c)' = CallState(c) \/ CallState(d)' = CallState(d))]_vars
    /\ [](\A c \in Calls : OwnOutcome(c))

\* Both calls ran at the same time: one returned the decoded response of its
\* exchange while the other, canceled, returned its token's error with the
\* failed result of its own exchange left in its channel.
C18_Witness ==
    \E c, d \in Calls :
        /\ c # d
        /\ Returned(c) /\ via[c] = "result" /\ retErr[c] = NilErr
        /\ resp[c].Groups = TwoGroups /\ ~Done(c)
        /\ Returned(d) /\ via[d] = "cancel" /\ retErr[d] = Canceled
        /\ Len(resultChannel[d]) = 1
        /\ ErrorKind(Head(resultChannel[d]).err) = "UnexpectedHTTPStatus"
        /\ srvReceived[c] = 1 /\ srvReceived[d] = 1

\* The exchange of c completed with status 200, content type
\* application/json and a body that decodes into the response.
GoodExchange(c) ==
    /\ ioErr[c] = NilErr
    /\ httpResp[c].StatusCode = 200
    /\ httpResp[c].ContentType = "application/json"
    /\ httpResp[c].Body \in DecodableBodies

\* C19 as stated: when the token is not canceled and the exchange completed
\* with status 200, content type application/json and a body that decodes,
\* the facade returns the decoded response, holding the values of the body,
\* with a nil error.
C19_AsStated ==
    \A c \in Calls :
        (Returned(c) /\ via[c] = "result" /\ ~Done(c) /\ GoodExchange(c)) =>
            /\ retResp[c] = <<BodyValues[httpResp[c].Body]>>
            /\ retErr[c] = NilErr

\* C19, amended: request returns nil exactly when the call took the result
\* of an exchange that completed with status 200, content type
\* application/json and a body that decodes; the facade then returns the
\* decoded response, holding the values of the body, and its error is that
\* of the status table for the decoded Status: nil when the Status is 0 (or
\* absent), non-nil otherwise.
C19_Success ==
    \A c \in Calls :
        Returned(c) =>
            /\ reqErr[c] = NilErr <=> (via[c] = "result" /\ GoodExchange(c))
            /\ (via[c] = "result" /\ GoodExchange(c)) =>
                  /\ resp[c] = BodyValues[httpResp[c].Body]
                  /\ retResp[c] = <<resp[c]>>
                  /\ retErr[c] = NilErr <=> resp[c].Status = 0
                  /\ resp[c].Status = 1 => retErr[c] = <<"unknown method">>

\* TestSuccessfulThemeGet: two groups decoded, no error.
C19_Witness ==
    \E c \in Calls :
        /\ Returned(c) /\ via[c] = "result" /\ ctxKind[c] = "Background"
        /\ httpResp[c] = [StatusCode |-> 200, ContentType |-> "application/json",
                          Body |-> BodyGroups]
        /\ retErr[c] = NilErr
        /\ retResp[c] = << [Status |-> 0,
                            Groups |-> << [GroupNumber |-> 0, Intensity |-> 26],
                                          [GroupNumber |-> 1, Intensity |-> 42] >>] >>

\* C20: a 200 application/json response whose JSON object has no Status
\* field is a success: the decoded Status is 0 and the facade returns the
\* response with a nil error, not a JSON error.
C20_StatusOmitted ==
    \A c \in Calls :
        (/\ Returned(c) /\ via[c] = "result" /\ ioErr[c] = NilErr
         /\ httpResp[c].StatusCode = 200
         /\ httpResp[c].ContentType = "application/json"
         /\ httpResp[c].Body \in {"{}", BodyGroups}) =>
            /\ reqErr[c] = NilErr /\ retErr[c] = NilErr
            /\ Len(retResp[c]) = 1 /\ retResp[c][1].Status = 0

\* The body is the empty object.
C20_Witness ==
    \E c \in Calls :
        /\ Returned(c) /\ via[c] = "result"
        /\ httpResp[c] = [StatusCode |-> 200, ContentType |-> "application/json",
                          Body |-> "{}"]
        /\ retErr[c] = NilErr /\ retResp[c] = <<[Status |-> 0, Groups |-> <<>>]>>

\* The request each facade method is documented to put on the wire.
WireRequest ==
    ("ThemeGet" :>
        [Verb |-> "POST", URL |-> <<"http://luxor", "/", "ThemeGet", ".json">>,
         ContentType |-> "application/json", Body |-> "{\"ThemeIndex\":0}"]) @@
    ("GroupListGet" :>
        [Verb |-> "POST", URL |-> <<"http://luxor", "/", "GroupListGet", ".json">>,
         ContentType |-> "application/json", Body |-> "{}"])

\* C21: the request the server receives for a call is an HTTP POST to
\* BaseURL/<method>.json, <method> being the name of the facade method, with
\* the header Content-Type: application/json and the JSON serialization of
\* the request payload as its body; nothing is received before dispatch.
C21_WireRequest ==
    \A c \in Calls :
        /\ srvReceived[c] > 0 => srvRequest[c] = WireRequest[method[c]]
        /\ srvReceived[c] = 0 => srvRequest[c] = NoRequest

\* TestSuccessfulThemeGet: the server sees POST /ThemeGet.json.
C21_Witness ==
    \E c \in Calls :
        /\ srvReceived[c] = 1 /\ method[c] = "ThemeGet"
        /\ srvRequest[c].Verb = "POST"
        /\ srvRequest[c].URL = <<"http://luxor", "/", "ThemeGet", ".json">>
        /\ srvRequest[c].ContentType = "application/json"
        /\ srvRequest[c].Body = "{\"ThemeIndex\":0}"

\* C22: the pre-flight cancellation check precedes serialization: a call
\* made with a token that is already canceled returns the token's
\* cancellation error from the pre-flight check, also when its payload
\* cannot be serialized.
C22_PreflightFirst ==
    \A c \in Calls :
        (Returned(c) /\ doneAtCall[c]) =>
            /\ via[c] = "preflight"
            /\ reqErr[c] = ctxErr[c] /\ reqErr[c] \in CanceledKind

\* C23: a call whose payload does not serialize returns the error of
\* json.Marshal, whatever its token; no doPost goroutine is started, no
\* request reaches the server and the facade returns a nil response.
C23_SerializationFails ==
    \A c \in Calls :
        (pc[c] # "idle" /\ payload[c] = "unserializable") =>
            /\ Returned(c) /\ via[c] = "marshal"
            /\ reqErr[c] = <<"json: unsupported type">>
            /\ retErr[c] = reqErr[c] /\ retResp[c] = <<>>
            /\ posts[c] = 0 /\ gpc[c] = "none" /\ srvReceived[c] = 0
            /\ srvRequest[c] = NoRequest

\* The token is live, so only the payload stops the call.
C23_Witness ==
    \E c \in Calls :
        /\ Returned(c) /\ payload[c] = "unserializable" /\ ~doneAtCall[c]
        /\ ~elapsedAtCall[c]
        /\ retErr[c] = <<"json: unsupported type">> /\ posts[c] = 0

\* C24: request does not look at the Status field: for an exchange that
\* completed with a valid response it returns nil whether the decoded Status
\* is 0 or not, and the response holds that Status; the error of a Status
\* other than 0 is the one the facade gets from ErrorForStatus afterwards.
C24_NoStatusInspection ==
    \A c \in Calls :
        (Returned(c) /\ via[c] = "result" /\ GoodExchange(c)) =>
            /\ reqErr[c] = NilErr
            /\ resp[c].Status = BodyValues[httpResp[c].Body].Status
            /\ retResp[c] = <<resp[c]>>
            /\ resp[c].Status # 0 =>
                  /\ retErr[c] # NilErr
                  /\ ErrorKind(retErr[c]) \notin
                        {"MalformedResponse", "UnexpectedHTTPStatus",
                         "UnexpectedContentType", "Canceled"}

\* TestBadApplicationStatus: request returned nil on a body with Status 1.
C24_Witness ==
    \E c \in Calls :
        /\ Returned(c) /\ via[c] = "result"
        /\ httpResp[c] = [StatusCode |-> 200, ContentType |-> "application/json",
                          Body |-> BodyStatus1]
        /\ reqErr[c] = NilErr /\ resp[c].Status = 1
        /\ retErr[c] = <<"unknown method">>

\* A result holds an error and no body, or no error and the body.
WellFormedResult(res) ==
    \/ res.err # NilErr /\ res.body = <<>>
    \/ res.err = NilErr /\ Len(res.body) = 1

\* C25: a doPost goroutine sends on its call's result channel exactly once,
\* in the step that ends it, whichever way it ends (Post error, read error,
\* bad status, bad content type, success), and never again; what it sends
\* holds either an error and no body or no error and the body.
C25_ResultOnce ==
    /\ [][\A c \in Calls :
             /\ sends'[c] \in {sends[c], sends[c] + 1}
             /\ (gpc[c] # "done" /\ gpc'[c] = "done") <=> sends'[c] = sends[c] + 1
             /\ sends'[c] = sends[c] + 1 =>
                   /\ Len(resultChannel'[c]) = 1
                   /\ WellFormedResult(resultChannel'[c][1])]_vars
    /\ [](\A c \in Calls :
             /\ sends[c] = (IF gpc[c] = "done" THEN 1 ELSE 0)
             /\ Len(resultChannel[c]) <= sends[c])

\* doPost ended on a bad status: one result, an error without body.
C25_Witness ==
    \E c \in Calls :
        /\ gpc[c] = "done" /\ sends[c] = 1 /\ httpResp[c].StatusCode = 500
        /\ ioErr[c] = NilErr
        /\ Len(resultChannel[c]) = 1
        /\ ErrorKind(resultChannel[c][1].err) = "UnexpectedHTTPStatus"
        /\ resultChannel[c][1].body = <<>>

\* C26: once httpClient.Post returned a response, its body is closed by the
\* time doPost has finished, however doPost ends (read failure, timeout
\* while reading, bad status, bad content type, success) and whether or not
\* the caller is still waiting; a body is open only while doPost reads it.
C26_BodyClosed ==
    \A c \in Calls :
        /\ bodyState[c] = "open" => gpc[c] = "read"
        /\ (gpc[c] = "done" /\ httpResp[c] # NoResponse) => bodyState[c] = "closed"
        /\ httpResp[c] = NoResponse <=> bodyState[c] = "none"

\* The caller had returned on cancellation before the response came; reading
\* its body failed and the body was closed.
C26_Witness ==
    \E c \in Calls :
        /\ Returned(c) /\ via[c] = "cancel" /\ first[c] = "done"
        /\ gpc[c] = "done" /\ httpResp[c] # NoResponse
        /\ ioErr[c] = <<"unexpected EOF">>
        /\ bodyState[c] = "closed"

\* C27: a cancellation error returned by the checks made before dispatch
\* (token already done, deadline elapsed) comes with no request received by
\* the server, then and ever after; a cancellation error returned from the
\* race gives no such guarantee, the exchange being left to run.
C27_CanceledBeforeDispatch ==
    \A c \in Calls :
        (Returned(c) /\ via[c] \in {"preflight", "deadline"}) =>
            /\ retErr[c] \in CanceledKind
            /\ posts[c] = 0 /\ gpc[c] = "none"
            /\ srvReceived[c] = 0 /\ srvRequest[c] = NoRequest

\* The call returned Canceled from the race, and the server has received
\* the request and answered it.
C27_Witness ==
    \E c \in Calls :
        /\ Returned(c) /\ via[c] = "cancel" /\ retErr[c] = Canceled
        /\ first[c] = "done"
        /\ srvReceived[c] = 1 /\ srvRequest[c] = WireRequest[method[c]]
        /\ httpResp[c].StatusCode = 200

\* C28: a call waits only in its select (every other step of request runs
\* to the next return or to the select without waiting); it stays there for
\* as long as neither the done-signal has fired nor the exchange has
\* produced its result, and once either has happened it eventually returns,
\* the select being scheduled.
C28_EventuallyReturns ==
    /\ [][\A c \in Calls :
             /\ pc[c] = "idle" => pc'[c] \in {"idle", "race", "returned"}
             /\ (pc[c] = "race" /\ ~Done(c) /\ gpc[c] # "done") => pc'[c] = "race"]_vars
    /\ \A c \in Calls :
          (pc[c] = "race" /\ (Done(c) \/ gpc[c] = "done")) ~> Returned(c)

\* A token that never fires and has no deadline: the call returned with the
\* result of the exchange, a read failure, when the exchange ended.
C28_Witness ==
    \E c \in Calls :
        /\ Returned(c) /\ ctxKind[c] = "Background" /\ timeout[c] = 0
        /\ via[c] = "result" /\ gpc[c] = "done"
        /\ retErr[c] = <<"unexpected EOF">>

\* C29: doPost never waits to deliver its result: whenever its HTTP
\* operation can return (Post fails, the body is read or the read fails, the
\* timer of the client fires), the step that sends the result and ends the
\* goroutine can be taken, the channel being empty until then, whether the
\* caller is still in its select or has returned.
C29_SendNeverBlocks ==
    \A c \in Calls :
        /\ gpc[c] \in {"post", "read"} =>
              /\ Len(resultChannel[c]) = 0 /\ sends[c] = 0
              /\ TimerExpired(c) => ENABLED ClientTimeout(c)
        /\ gpc[c] = "post" => ENABLED PostFails(c)
        /\ gpc[c] = "read" => (ENABLED ReadReturns(c)) /\ (ENABLED ReadFails(c))
        /\ Len(resultChannel[c]) <= 1

\* The caller had given up; doPost still delivered its result and ended.
C29_Witness ==
    \E c \in Calls :
        /\ Returned(c) /\ via[c] = "cancel" /\ first[c] = "done"
        /\ gpc[c] = "done" /\ sends[c] = 1 /\ Len(resultChannel[c]) = 1
        /\ Head(resultChannel[c]).err = NilErr

\* C30: for a call whose token has no deadline and is never canceled and
\* whose exchange completed, the racing request returns what the
\* context-propagating request returns for the same payload and the same
\* exchange: the same error, chosen by the same order of checks, or nil with
\* the same decoded response; the facade's return is then the same too.
C30_VariantsAgree ==
    \A c \in Calls :
        (/\ Returned(c) /\ via[c] \in {"marshal", "result"}
         /\ ~HasDeadline(ctxKind[c]) /\ ~Done(c)) =>
            LET out == RequestWithContext(payload[c], Exchange(c), ZeroResponse)
            IN  /\ reqErr[c] = out.err
                /\ resp[c] = out.val
                /\ ErrorKind(reqErr[c]) = ErrorKind(out.err)
                /\ retErr[c] = Facade(out.err, out.val).err
                /\ retResp[c] = Facade(out.err, out.val).resp

\* Both variants reject a 200 response of type text/plain with a JSON body.
C30_Witness ==
    \E c \in Calls :
        /\ Returned(c) /\ via[c] = "result" /\ ctxKind[c] = "Background"
        /\ httpResp[c] = [StatusCode |-> 200, ContentType |-> "text/plain",
                          Body |-> BodyGroups]
        /\ ioErr[c] = NilErr
        /\ ErrorKind(reqErr[c]) = "UnexpectedContentType"
        /\ RequestWithContext(payload[c], Exchange(c), ZeroResponse).err = reqErr[c]

====
